---------------------------- MODULE Spec2Model ----------------------------
(***************************************************************************)
(* A model of the Lucid-UI conversation IR (packages/core), of the Vercel  *)
(* wire adapter (adapter-vercel, src/unnamed/part_009) and of the          *)
(* streaming consumption hook useAsyncStream (packages/agent).             *)
(*                                                                         *)
(* Two specifications share the module's variables:                        *)
(*   Spec        the adapter and the IR helpers: every action is one call  *)
(*               of an exported function, its arguments drawn from the     *)
(*               bounded sets below, its result kept in `last';            *)
(*   SpecStream  one mounted useAsyncStream hook and the sources it        *)
(*               consumes.                                                 *)
(*   SpecTyping  one mounted useTypingAnimation hook and its timer;        *)
(*   SpecStreamText  one StreamText component, which calls both hooks;     *)
(*   SpecHeal    a StreamMarkdown whose content grows and is repaired by   *)
(*               healMarkdown (packages/stream) at each render.            *)
(*   SpecApproval  one ToolResult (packages/agent) in a host that runs the *)
(*               approval workflow of the ApprovalRequired story;          *)
(*   SpecEvents  the event-to-IR reducer processEvent of ProtocolDemo.     *)
(* A specification leaves the variables of the parts it does not run at    *)
(* their initial values.                                                   *)
(*                                                                         *)
(* Conventions.  A JavaScript `undefined' (a missing optional field) is    *)
(* the string Absent; an optional object is a record with a `present'      *)
(* flag; an optional boolean is one of "true", "false", Absent.  A part's  *)
(* type tag is the sequence of its "-"-separated tokens ("tool-web-search" *)
(* is <<"tool", "web", "search">>), so that startsWith('tool-') and        *)
(* replace(/^tool-/, '') are computed on the tag and not assumed.          *)
(***************************************************************************)
EXTENDS Integers, Sequences, FiniteSets, TLC

VARIABLES
    blockIdCounter,  \* part_009:143  module-level counter of the default id generator
    now,             \* the value Date.now() returns
    last,            \* the last adapter / helper call: [op, input, opts, output]
    issued,          \* the ids the default generator has returned, in call order
    mounted,         \* the component using useAsyncStream: "no", "yes", "gone"
    stream,          \* the hook's stream argument: NoStream or a source
    text,            \* agent/src/index.ts:136  useState('')
    isStreaming,     \* agent/src/index.ts:137  useState(false)
    error,           \* agent/src/index.ts:138  useState(null): <<>> or <<an Error>>
    runs,            \* the consumptions started so far, one per effect run with a stream
    cur,             \* the consumption of the effect in force, 0 if none
    src,             \* the sources: what each has produced, its requests, its lock
    textProp,        \* StreamText's text prop
    textArg,         \* useTypingAnimation's text argument
    speed,           \* useTypingAnimation's speed argument
    displayText,     \* agent/src/index.ts:196  useState('')
    isTyping,        \* agent/src/index.ts:197  useState(false)
    anims,           \* the animations started so far, one per effect run with a text
    anim,            \* the animation of the effect in force, 0 if none
    mdContent,       \* StreamMarkdown's content prop
    processedContent, \* what StreamMarkdown last rendered: <<>> or <<[of, streaming, pass, result]>>
    toolStatus,      \* the host's status state, ToolResult's status prop; Absent: not rendered
    handlers,        \* which handlers the host passes: [onApprove, onDeny, onToggle]
    collapsed,       \* ToolResult's collapsed prop
    timers,          \* the host's pending timeouts: a set of [due, to]
    decisions,       \* the calls of onApprove and onDeny so far, in order
    conversationState, \* ProtocolDemo's conversation state: <<>> (null) or <<conversation>>
    activeEvent,     \* the event processEvent was last given: <<>> or <<event>>
    handled          \* the number of events processEvent has been given

adapterVars == <<blockIdCounter, now, last, issued>>

streamVars == <<mounted, stream, text, isStreaming, error, runs, cur, src>>

typingVars == <<textProp, textArg, speed, displayText, isTyping, anims, anim>>

healVars == <<mdContent, processedContent>>

approvalVars == <<toolStatus, handlers, collapsed, timers, decisions>>

eventVars == <<conversationState, activeEvent, handled>>

\* What the actions of one part leave alone.
nonAdapterVars == <<streamVars, typingVars, healVars, approvalVars, eventVars>>

nonStreamVars == <<adapterVars, typingVars, healVars, approvalVars, eventVars>>

nonTypingVars == <<adapterVars, healVars, approvalVars, eventVars>>

nonHealVars == <<adapterVars, streamVars, typingVars, approvalVars, eventVars>>

nonApprovalVars == <<adapterVars, streamVars, typingVars, healVars, eventVars>>

nonEventVars == <<adapterVars, streamVars, typingVars, healVars, approvalVars>>

-----------------------------------------------------------------------------
(* Bounds *)

MaxParts == 3
MaxCounter == 4
MaxClock == 1

-----------------------------------------------------------------------------
(* Values *)

Absent == "undefined"

T_TEXT == <<"text">>
T_REASONING == <<"reasoning">>
T_FILE == <<"file">>
T_SOURCE_URL == <<"source", "url">>
T_SOURCE_DOCUMENT == <<"source", "document">>
T_DYNAMIC_TOOL == <<"dynamic", "tool">>

ContentStatus == {"streaming", "completed", "error"}

ToolStatus ==
    {"pending", "streaming", "ready", "running", "approval-required",
     "approved", "denied", "success", "error"}

WireToolStates ==
    {"input-streaming", "input-available", "approval-requested",
     "approval-responded", "output-available", "output-error", "output-denied"}

\* What a tool part's `state' may hold at run time: the seven wire states, a
\* missing state, and two values outside the declared union.
ToolStateInputs == WireToolStates \cup {Absent, "streaming", "call"}

TextStateInputs == {Absent, "streaming", "done"}

\* A missing tool name (names are token sequences, like tags).
AbsentName == <<>>

NoApproval == [present |-> FALSE, id |-> Absent, approved |-> Absent, reason |-> Absent]

MkApproval(id, approved, reason) ==
    [present |-> TRUE, id |-> id, approved |-> approved, reason |-> reason]

ApprovalInputs ==
    {NoApproval,
     MkApproval("a1", Absent, Absent),
     MkApproval("a2", "true", Absent),
     MkApproval("a3", "false", "too risky")}

-----------------------------------------------------------------------------
(* Wire parts (part_009:44-107) *)

TextPart(st) == [type |-> T_TEXT, text |-> "hello", state |-> st]

ReasoningPart(st) == [type |-> T_REASONING, text |-> "hmm", state |-> st]

FilePart(fn) ==
    [type |-> T_FILE, mediaType |-> "image/png", filename |-> fn, url |-> "blob:1"]

SourceUrlPart(title) ==
    [type |-> T_SOURCE_URL, sourceId |-> "s1", url |-> "http://x", title |-> title]

SourceDocumentPart(fn) ==
    [type |-> T_SOURCE_DOCUMENT, sourceId |-> "s2", mediaType |-> "application/pdf",
     title |-> "Doc", filename |-> fn]

ToolPart(type, toolName, st, input, approval) ==
    [type |-> type, toolName |-> toolName, toolCallId |-> "call-1", state |-> st,
     input |-> input,
     output |-> IF st = "output-available" THEN "result" ELSE Absent,
     errorText |-> IF st = "output-error" THEN "boom" ELSE Absent,
     approval |-> approval]

\* Tags and names of the tool parts: dynamic-tool with and without a name,
\* tool-search, tool-web-search and the bare prefix "tool-".
ToolTagInputs ==
    {<<T_DYNAMIC_TOOL, AbsentName>>, <<T_DYNAMIC_TOOL, <<"calc">>>>,
     <<<<"tool", "search">>, AbsentName>>, <<<<"tool", "web", "search">>, AbsentName>>,
     <<<<"tool", "">>, AbsentName>>}

ToolParts ==
    {ToolPart(tg[1], tg[2], st, inp, ap) :
        tg \in ToolTagInputs, st \in ToolStateInputs,
        inp \in {Absent, "args"}, ap \in ApprovalInputs}

\* Tags the adapter does not know; "toolbox" and "tool" do not start with "tool-".
UnsupportedParts ==
    {[type |-> <<"step", "start">>],
     [type |-> <<"unsupported", "x">>],
     [type |-> <<"toolbox">>, state |-> "streaming"],
     [type |-> <<"tool">>, state |-> "output-error"]}

Parts ==
    {TextPart(st) : st \in TextStateInputs}
    \cup {ReasoningPart(st) : st \in TextStateInputs}
    \cup {FilePart(fn) : fn \in {Absent, "a.png"}}
    \cup {SourceUrlPart(t) : t \in {Absent, "Title"}}
    \cup {SourceDocumentPart(fn) : fn \in {Absent, "d.pdf"}}
    \cup ToolParts
    \cup UnsupportedParts

\* The parts messages are built from: every block type and block status, a
\* filtered type and an unsupported one.
MessageParts ==
    {TextPart("streaming"), TextPart("done"), ReasoningPart(Absent),
     FilePart(Absent),
     ToolPart(T_DYNAMIC_TOOL, <<"calc">>, "output-error", "args", NoApproval),
     ToolPart(<<"tool", "search">>, AbsentName, "input-streaming", Absent, NoApproval),
     ToolPart(T_DYNAMIC_TOOL, AbsentName, "approval-requested", "args",
              MkApproval("a1", Absent, Absent)),
     [type |-> <<"unsupported", "x">>]}

MessageRoles == {"user", "assistant"}

RECURSIVE SeqsUpTo(_, _)
\* The sequences over S of length at most n.
SeqsUpTo(S, n) ==
    IF n = 0 THEN {<<>>}
    ELSE LET shorter == SeqsUpTo(S, n - 1)
         IN  shorter \cup {Append(q, x) : q \in {r \in shorter : Len(r) = n - 1}, x \in S}

Messages ==
    {[id |-> "m1", role |-> r, parts |-> ps] :
        r \in MessageRoles, ps \in SeqsUpTo(MessageParts, MaxParts)}

\* ConversionOptions (part_009:120-137).  generateBlockId is missing or a
\* caller's generator (here one that returns a fixed id); filterPart is missing
\* or one of two predicates.
GeneratorInputs == {Absent, "custom"}

FilterInputs == {Absent, "dropText", "onlyTools"}

Options == [generateBlockId : GeneratorInputs, filterPart : FilterInputs]

-----------------------------------------------------------------------------
(* Forward conversion, wire -> IR *)

\* part.type.startsWith('tool-')
StartsWithTool(type) == Len(type) >= 2 /\ Head(type) = "tool"

IsToolType(type) == StartsWithTool(type) \/ type = T_DYNAMIC_TOOL

IsSupportedType(type) ==
    \/ type \in {T_TEXT, T_REASONING, T_FILE, T_SOURCE_URL, T_SOURCE_DOCUMENT}
    \/ IsToolType(type)

\* `block-${Date.now()}-${++blockIdCounter}`, the counter already incremented.
\* A slip: the id is made of the time alone.
defaultGenerateBlockId_TimeOnly(t, counter) == <<"block", t, 0>>

defaultGenerateBlockId(t, counter) == <<"block", t, counter>>

\* options.generateBlockId ?? defaultGenerateBlockId, called once: the id and
\* the counter after the call.
GenerateId(opts, t, counter) ==
    IF opts.generateBlockId = Absent
    THEN [id |-> defaultGenerateBlockId(t, counter + 1), counter |-> counter + 1]
    ELSE [id |-> <<"custom">>, counter |-> counter]

\* A slip: the input-available case is forgotten and falls to the default.
convertToolState_ReadyForgotten(state) ==
    CASE state = "input-streaming" -> "streaming"
      [] state = "approval-requested" -> "approval-required"
      [] state = "approval-responded" -> "approved"
      [] state = "output-available" -> "success"
      [] state = "output-error" -> "error"
      [] state = "output-denied" -> "denied"
      [] OTHER -> "pending"

\* A slip: approval-responded is taken for the tool already running.
convertToolState_RespondedRunning(state) ==
    CASE state = "input-streaming" -> "streaming"
      [] state = "input-available" -> "ready"
      [] state = "approval-requested" -> "approval-required"
      [] state = "approval-responded" -> "running"
      [] state = "output-available" -> "success"
      [] state = "output-error" -> "error"
      [] state = "output-denied" -> "denied"
      [] OTHER -> "pending"

convertToolState(state) ==
    CASE state = "input-streaming" -> "streaming"
      [] state = "input-available" -> "ready"
      [] state = "approval-requested" -> "approval-required"
      [] state = "approval-responded" -> "approved"
      [] state = "output-available" -> "success"
      [] state = "output-error" -> "error"
      [] state = "output-denied" -> "denied"
      [] OTHER -> "pending"

extractToolName(part) ==
    IF part.type = T_DYNAMIC_TOOL
    THEN IF part.toolName = AbsentName THEN <<"unknown">> ELSE part.toolName
    ELSE Tail(part.type)

\* A slip: the output-error test is left out.
inferBlockStatus_NoError(part) ==
    IF "state" \in DOMAIN part /\ part.state \in {"streaming", "input-streaming"}
    THEN "streaming"
    ELSE "completed"

inferBlockStatus(part) ==
    IF "state" \in DOMAIN part /\ part.state \in {"streaming", "input-streaming"}
    THEN "streaming"
    ELSE IF "state" \in DOMAIN part /\ part.state = "output-error"
         THEN "error"
         ELSE "completed"

\* A slip: the reason is not copied.
CopyApproval_NoReason(approval) ==
    IF approval.present
    THEN [present |-> TRUE, id |-> approval.id, approved |-> approval.approved,
          reason |-> Absent]
    ELSE NoApproval

\* The approval copied field by field when the part carries one (part_009:287-294).
CopyApproval(approval) ==
    IF approval.present
    THEN [present |-> TRUE, id |-> approval.id, approved |-> approval.approved,
          reason |-> approval.reason]
    ELSE NoApproval

\* x ?? d
OrElse(x, d) == IF x = Absent THEN d ELSE x

TextStatus(state) == IF state = "streaming" THEN "streaming" ELSE "completed"

\* The block convertPartToBlock builds for a part of a supported type, with the
\* id it was given.
BlockOfPart(part, id) ==
    CASE part.type = T_TEXT ->
            [id |-> id, type |-> "text", status |-> TextStatus(part.state),
             content |-> [text |-> part.text]]
      [] part.type = T_REASONING ->
            [id |-> id, type |-> "thinking", status |-> TextStatus(part.state),
             content |-> [reasoning |-> part.text]]
      [] part.type = T_FILE ->
            [id |-> id, type |-> "file", status |-> "completed",
             content |-> [name |-> OrElse(part.filename, "file"),
                          type |-> part.mediaType, url |-> part.url]]
      [] part.type = T_SOURCE_URL ->
            [id |-> id, type |-> "source", status |-> "completed",
             content |-> [sourceId |-> part.sourceId, sourceType |-> "url",
                          title |-> OrElse(part.title, part.url), url |-> part.url]]
      [] part.type = T_SOURCE_DOCUMENT ->
            [id |-> id, type |-> "source", status |-> "completed",
             content |-> [sourceId |-> part.sourceId, sourceType |-> "document",
                          title |-> part.title, mediaType |-> part.mediaType,
                          filename |-> part.filename]]
      [] OTHER ->
            [id |-> id, type |-> "tool", status |-> inferBlockStatus(part),
             content |-> [name |-> extractToolName(part),
                          input |-> OrElse(part.input, "{}"),
                          output |-> part.output,
                          status |-> convertToolState(part.state),
                          error |-> part.errorText,
                          approval |-> CopyApproval(part.approval)]]

\* convertPartToBlock(part, options) with the counter and the clock it runs
\* under: [block, counter], block a sequence of zero (null) or one block.
convertPartToBlock(part, opts, t, counter) ==
    IF IsSupportedType(part.type)
    THEN LET g == GenerateId(opts, t, counter)
         IN  [block |-> <<BlockOfPart(part, g.id)>>, counter |-> g.counter]
    ELSE [block |-> <<>>, counter |-> counter]

\* The ids the default generator returned during a conversion that gave these
\* blocks: one per block, in order; none when the caller's generator was used.
IssuedBy(opts, blocks) ==
    IF opts.generateBlockId = Absent
    THEN [i \in 1..Len(blocks) |-> blocks[i].id]
    ELSE <<>>

\* options.filterPart ?? (() => true)
filterPart(opts, part) ==
    CASE opts.filterPart = "dropText" -> part.type # T_TEXT
      [] opts.filterPart = "onlyTools" -> IsToolType(part.type)
      [] OTHER -> TRUE

RECURSIVE ConvertParts_StopAtFiltered(_, _, _, _, _)
\* A slip: `break' for `continue' at a filtered part.
ConvertParts_StopAtFiltered(parts, i, opts, t, acc) ==
    IF i > Len(parts) THEN acc
    ELSE IF ~filterPart(opts, parts[i])
         THEN acc
         ELSE LET r == convertPartToBlock(parts[i], opts, t, acc.counter)
              IN  ConvertParts_StopAtFiltered(parts, i + 1, opts, t,
                      [blocks |-> acc.blocks \o r.block, counter |-> r.counter])

RECURSIVE ConvertParts(_, _, _, _, _)
\* The loop of fromVercelMessage (part_009:326-333) from part i on:
\* [blocks, counter].
ConvertParts(parts, i, opts, t, acc) ==
    IF i > Len(parts) THEN acc
    ELSE IF ~filterPart(opts, parts[i])
         THEN ConvertParts(parts, i + 1, opts, t, acc)
         ELSE LET r == convertPartToBlock(parts[i], opts, t, acc.counter)
              IN  ConvertParts(parts, i + 1, opts, t,
                               [blocks |-> acc.blocks \o r.block, counter |-> r.counter])

RECURSIVE InferStatus_ErrorBreaks(_, _, _)
\* A slip: the scan stops at the first error block as it does at a streaming one.
InferStatus_ErrorBreaks(blocks, i, status) ==
    IF i > Len(blocks) THEN status
    ELSE IF blocks[i].status = "streaming" THEN "streaming"
         ELSE IF blocks[i].status = "error" THEN "error"
              ELSE InferStatus_ErrorBreaks(blocks, i + 1, status)

RECURSIVE InferStatus(_, _, _)
\* The scan of part_009:336-346 from block i on, `status' what it holds so far.
InferStatus(blocks, i, status) ==
    IF i > Len(blocks) THEN status
    ELSE IF blocks[i].status = "streaming" THEN "streaming"
         ELSE IF blocks[i].status = "error"
              THEN InferStatus(blocks, i + 1, "error")
              ELSE InferStatus(blocks, i + 1, status)

\* fromVercelMessage(message, options): [conversation, counter].
fromVercelMessage(message, opts, t, counter) ==
    LET r == ConvertParts(message.parts, 1, opts, t, [blocks |-> <<>>, counter |-> counter])
    IN  [conversation |->
            [id |-> message.id, role |-> message.role,
             status |-> InferStatus(r.blocks, 1, "completed"),
             blocks |-> r.blocks, timestamp |-> t],
         counter |-> r.counter]

-----------------------------------------------------------------------------
(* Reverse conversion, IR -> wire *)

\* content.approval ? {id, approved, reason} : undefined (part_009:459-465)
WireApproval(approval) ==
    IF approval.present
    THEN [present |-> TRUE, id |-> approval.id, approved |-> approval.approved,
          reason |-> approval.reason]
    ELSE NoApproval

\* A slip: the `running' case is forgotten and falls to the default branch.
convertToolStatusToVercel_RunningForgotten(status) ==
    CASE status \in {"pending", "streaming"} -> "input-streaming"
      [] status = "ready" -> "input-available"
      [] status = "approval-required" -> "approval-requested"
      [] status = "approved" -> "approval-responded"
      [] status = "success" -> "output-available"
      [] status = "error" -> "output-error"
      [] status = "denied" -> "output-denied"
      [] OTHER -> "input-streaming"

convertToolStatusToVercel(status) ==
    CASE status \in {"pending", "streaming"} -> "input-streaming"
      [] status = "ready" -> "input-available"
      [] status = "approval-required" -> "approval-requested"
      [] status \in {"approved", "running"} -> "approval-responded"
      [] status = "success" -> "output-available"
      [] status = "error" -> "output-error"
      [] status = "denied" -> "output-denied"
      [] OTHER -> "input-streaming"

\* block.status === 'streaming' ? 'streaming' : 'done'
WireTextState(status) == IF status = "streaming" THEN "streaming" ELSE "done"

\* convertBlockToParts(block): the sequence of parts, empty for the block types
\* of the default branch.
convertBlockToParts(block) ==
    CASE block.type = "text" ->
            <<[type |-> T_TEXT, text |-> block.content.text,
               state |-> WireTextState(block.status)]>>
      [] block.type = "thinking" ->
            <<[type |-> T_REASONING, text |-> block.content.reasoning,
               state |-> WireTextState(block.status)]>>
      [] block.type = "file" ->
            <<[type |-> T_FILE, mediaType |-> block.content.type,
               filename |-> block.content.name, url |-> block.content.url]>>
      [] block.type = "source" ->
            IF block.content.sourceType = "url"
            THEN <<[type |-> T_SOURCE_URL, sourceId |-> block.content.sourceId,
                    url |-> OrElse(block.content.url, ""),
                    title |-> block.content.title]>>
            ELSE <<[type |-> T_SOURCE_DOCUMENT, sourceId |-> block.content.sourceId,
                    mediaType |-> OrElse(block.content.mediaType, ""),
                    title |-> block.content.title,
                    filename |-> block.content.filename]>>
      [] block.type = "tool" ->
            <<[type |-> T_DYNAMIC_TOOL, toolName |-> block.content.name,
               toolCallId |-> block.id,
               state |-> convertToolStatusToVercel(block.content.status),
               input |-> block.content.input, output |-> block.content.output,
               errorText |-> block.content.error,
               approval |-> WireApproval(block.content.approval)]>>
      [] OTHER -> <<>>

-----------------------------------------------------------------------------
(* Tool status helpers (core/src/index.ts:409-425) *)

isToolAwaitingApproval(block) == block.content.status = "approval-required"

\* A slip: `denied' is not counted as terminal.
isToolTerminal_NoDenied(block) == block.content.status \in {"success", "error"}

isToolTerminal(block) == block.content.status \in {"success", "error", "denied"}

isToolExecuting(block) == block.content.status \in {"running", "approved"}

RECURSIVE PartsOfBlocks_Unshift(_, _, _)
\* A slip: the parts of a block are put in front of those of the blocks before.
PartsOfBlocks_Unshift(blocks, i, parts) ==
    IF i > Len(blocks) THEN parts
    ELSE PartsOfBlocks_Unshift(blocks, i + 1, convertBlockToParts(blocks[i]) \o parts)

RECURSIVE PartsOfBlocks(_, _, _)
\* The loop of toVercelMessage (part_009:507-509) from block i on.
PartsOfBlocks(blocks, i, parts) ==
    IF i > Len(blocks) THEN parts
    ELSE PartsOfBlocks(blocks, i + 1, parts \o convertBlockToParts(blocks[i]))

toVercelMessage(conversation) ==
    [id |-> conversation.id, role |-> conversation.role,
     parts |-> PartsOfBlocks(conversation.blocks, 1, <<>>)]

-----------------------------------------------------------------------------
(* IR blocks given to the reverse conversion and to the helpers *)

ToolBlock(bstatus, tstatus, approval) ==
    [id |-> <<"b1">>, type |-> "tool", status |-> bstatus,
     content |-> [name |-> <<"calc">>, input |-> "args",
                  output |-> IF tstatus = "success" THEN "result" ELSE Absent,
                  status |-> tstatus,
                  error |-> IF tstatus = "error" THEN "boom" ELSE Absent,
                  approval |-> approval]]

ToolBlocks ==
    {ToolBlock(bs, ts, ap) : bs \in ContentStatus, ts \in ToolStatus, ap \in ApprovalInputs}

OtherBlocks ==
    {[id |-> <<"b2">>, type |-> "text", status |-> st, content |-> [text |-> "hello"]] :
        st \in ContentStatus}
    \cup {[id |-> <<"b3">>, type |-> "thinking", status |-> st,
           content |-> [reasoning |-> "hmm"]] : st \in ContentStatus}
    \cup {[id |-> <<"b4">>, type |-> "file", status |-> "completed",
           content |-> [name |-> "a.png", type |-> "image/png", url |-> "blob:1"]],
          [id |-> <<"b5">>, type |-> "source", status |-> "completed",
           content |-> [sourceId |-> "s1", sourceType |-> "url", title |-> "Title",
                        url |-> Absent]],
          [id |-> <<"b6">>, type |-> "source", status |-> "completed",
           content |-> [sourceId |-> "s2", sourceType |-> "document", title |-> "Doc",
                        mediaType |-> "application/pdf", filename |-> Absent]],
          [id |-> <<"b7">>, type |-> "image", status |-> "completed",
           content |-> [url |-> "blob:2"]],
          [id |-> <<"b8">>, type |-> "error", status |-> "error",
           content |-> [code |-> "E", message |-> "failed"]]}

Blocks == ToolBlocks \cup OtherBlocks

MaxBlocks == 2

\* The blocks conversations are built from: one of each type, both kinds of
\* source, and two tool blocks of different ids and names.
ConversationBlocks ==
    {b \in OtherBlocks : b.status # "streaming"}
    \cup {ToolBlock("completed", "success", NoApproval),
          [id |-> <<"call", 7>>, type |-> "tool", status |-> "streaming",
           content |-> [name |-> <<"web", "search">>, input |-> "args",
                        output |-> Absent, status |-> "streaming", error |-> Absent,
                        approval |-> NoApproval]]}

ConversationRoles == {"user", "assistant", "system"}

Conversations ==
    {[id |-> "c1", role |-> r, status |-> "completed", blocks |-> bs, timestamp |-> 0] :
        r \in ConversationRoles, bs \in SeqsUpTo(ConversationBlocks, MaxBlocks)}

-----------------------------------------------------------------------------
(* useAsyncStream (agent/src/index.ts:131-186): values *)

MaxRuns == 2
MaxFragments == 2

NoStream == 0

\* Source 1 is an async generator object (pull), source 2 a ReadableStream (push).
Sources == {1, 2}

SourceKind(s) == IF s = 1 THEN "pull" ELSE "push"

\* The i-th fragment source s yields: a string of one or two characters, every
\* character of every fragment different from all others.
Fragment(s, i) == [j \in 1..(IF i % 2 = 0 THEN 2 ELSE 1) |-> <<s, i, j>>]

\* What a source may throw: an Error, or a value that is not one.
Thrown == {[isError |-> TRUE, message |-> "boom"], [isError |-> FALSE, message |-> "oops"]}

\* getReader() on a locked ReadableStream throws a TypeError.
LockedError == [isError |-> TRUE, message |-> "locked"]

\* A slip: the thrown value is passed on as it is.
ToError_Unwrapped(err) == err

\* err instanceof Error ? err : new Error(String(err))
ToError(err) == IF err.isError THEN err ELSE [isError |-> TRUE, message |-> err.message]

\* What an iterator's next() settles with.
ValueResult(chunk) == [kind |-> "value", chunk |-> chunk, thrown |-> LockedError]
DoneResult == [kind |-> "done", chunk |-> <<>>, thrown |-> LockedError]
ErrorResult(err) == [kind |-> "error", chunk |-> <<>>, thrown |-> err]

InitStream ==
    /\ mounted = "no"
    /\ stream = NoStream
    /\ text = <<>>
    /\ isStreaming = FALSE
    /\ error = <<>>
    /\ runs = <<>>
    /\ cur = 0
    /\ src = [s \in Sources |-> [pos |-> 0, closed |-> "open", thrown |-> LockedError,
                                 queue |-> <<>>, lock |-> 0, uses |-> 0]]

-----------------------------------------------------------------------------
(* useTypingAnimation (agent/src/index.ts:191-225): values *)

MaxText == 2
MaxAnims == 2

\* An optional string is <<>> (undefined) or <<str>>; a string is its sequence
\* of UTF-16 units.
NoText == <<>>

\* The static strings: two families of lengths 0..MaxText, the units of one
\* different from the units of the other.
StaticText(k, n) == [i \in 1..n |-> <<"unit", k, i>>]

StaticTexts == {StaticText(k, n) : k \in {1, 2}, n \in 0..MaxText}

TextInputs == {NoText} \cup {<<str>> : str \in StaticTexts}

\* The interval in milliseconds; 30 is StreamText's default.
Speeds == {30, 60}

\* !text
IsFalsy(t) == t = NoText \/ t[1] = <<>>

InitTyping ==
    /\ textProp = NoText
    /\ textArg = NoText
    /\ speed = 30
    /\ displayText = <<>>
    /\ isTyping = FALSE
    /\ anims = <<>>
    /\ anim = 0

-----------------------------------------------------------------------------
(* StreamMarkdown and healMarkdown: values *)

MaxContent == 5

\* The characters a buffer is made of: the two marker characters, a letter and
\* a line feed.
BACKTICK == "backtick"

MarkdownChars == {BACKTICK, "*", "a", "\n"}

FENCE == <<BACKTICK, BACKTICK, BACKTICK>>
BOLD == <<"*", "*">>

RECURSIVE CountMatches(_, _, _)
\* (str.match(/pat/g) || []).length for a literal pattern: the matches are
\* taken from position i on, left to right, and do not overlap.
CountMatches(str, pat, i) ==
    IF i + Len(pat) - 1 > Len(str) THEN 0
    ELSE IF SubSeq(str, i, i + Len(pat) - 1) = pat
         THEN 1 + CountMatches(str, pat, i + Len(pat))
         ELSE CountMatches(str, pat, i + 1)

\* (str.match(/(?<!c)c(?!c)/g) || []).length: the occurrences of character c
\* with no c right before and none right after.
CountLone(str, c) ==
    Cardinality({i \in 1..Len(str) :
                    /\ str[i] = c
                    /\ (i = 1 \/ str[i - 1] # c)
                    /\ (i = Len(str) \/ str[i + 1] # c)})

\* A slip: any occurrence is taken for an unclosed marker.
IsOdd_NonZero(n) == n # 0

\* matches && matches.length % 2 !== 0
IsOdd(n) == n % 2 # 0

healMarkdown(buffer) ==
    LET r1 == IF IsOdd(CountMatches(buffer, FENCE, 1))
              THEN buffer \o <<"\n">> \o FENCE ELSE buffer
        r2 == IF IsOdd(CountLone(r1, BACKTICK)) THEN r1 \o <<BACKTICK>> ELSE r1
        r3 == IF IsOdd(CountMatches(r2, BOLD, 1)) THEN r2 \o BOLD ELSE r2
        r4 == IF IsOdd(CountLone(r3, "*")) THEN r3 \o <<"*">> ELSE r3
    IN  r4

\* const processedContent = isStreaming ? healMarkdown(content) : content
Render(buffer, streaming) ==
    <<[of |-> buffer, streaming |-> streaming, pass |-> 1,
       result |-> IF streaming THEN healMarkdown(buffer) ELSE buffer]>>

InitHeal ==
    /\ mdContent = <<>>
    /\ processedContent = <<>>

-----------------------------------------------------------------------------
(* ToolResult and the approval workflow: values *)

NoHandlers == [onApprove |-> FALSE, onDeny |-> FALSE, onToggle |-> FALSE]

HandlerInputs == [onApprove : BOOLEAN, onDeny : BOOLEAN, onToggle : BOOLEAN]

InitApproval ==
    /\ toolStatus = Absent
    /\ handlers = NoHandlers
    /\ collapsed = FALSE
    /\ timers = {}
    /\ decisions = <<>>

-----------------------------------------------------------------------------
(* processEvent: values *)

MaxEvents == 5

MaxIndex == 1

\* A string field of a block's content: missing, or a string of fragments.
Missing == [present |-> FALSE, chars |-> <<>>]

Str(chars) == [present |-> TRUE, chars |-> chars]

\* JSON values: a number or an object with members.
JsonNumber(n) == [kind |-> "number", num |-> n, members |-> {}]

JsonObject(members) == [kind |-> "object", num |-> 0, members |-> members]

MissingInput == [present |-> FALSE, value |-> JsonObject({})]

Input(value) == [present |-> TRUE, value |-> value]

\* Payloads of input_json_delta: a prefix of an object that does not parse
\* yet, the whole object, and an empty object written with a blank.
PartialJson == <<"{", "k", ":">>

WholeJson == <<"{", "k", ":", "1", "}">>

BlankJson == <<"{", " ", "}">>

JsonPayloads == {PartialJson, WholeJson, BlankJson}

NoPayload == <<>>

EventData(type, index, name, payload) ==
    [type |-> type, index |-> index, name |-> name, payload |-> payload]

AIEvent(type, data) == [type |-> type, data |-> data]

StartEvents ==
    {AIEvent("content_block_start",
             EventData(t, i, IF t = "tool_use" THEN <<"search">> ELSE AbsentName,
                       NoPayload)) :
        t \in {"thinking", "tool_use", "text"}, i \in 0..MaxIndex}

DeltaEvents ==
    {AIEvent("content_block_delta", EventData("thinking_delta", 0, AbsentName, <<"t">>)),
     AIEvent("content_block_delta", EventData("text_delta", 0, AbsentName, <<"a">>)),
     AIEvent("content_block_delta", EventData("signature_delta", 0, AbsentName, <<"s">>))}
    \cup {AIEvent("content_block_delta", EventData("input_json_delta", 0, AbsentName, p)) :
             p \in JsonPayloads}

StopEvents ==
    {AIEvent("content_block_stop", EventData(Absent, i, AbsentName, NoPayload)) :
        i \in 0..MaxIndex}

MessageStartEvent ==
    AIEvent("message_start", EventData(Absent, 0, AbsentName, NoPayload))

MessageStopEvent ==
    AIEvent("message_stop", EventData(Absent, 0, AbsentName, NoPayload))

InitEvents ==
    /\ conversationState = <<>>
    /\ activeEvent = <<>>
    /\ handled = 0

-----------------------------------------------------------------------------
(* The adapter and the helpers as a state machine.  A call is made when no   *)
(* result is held (last.op = "none"); Discard is the caller dropping the     *)
(* result it holds.  The counter of the default generator is unbounded in    *)
(* the code and capped by MaxCounter here.                                   *)

NoCall == [op |-> "none"]

DefaultOptions == [generateBlockId |-> Absent, filterPart |-> Absent]

InitAdapter ==
    /\ blockIdCounter = 0
    /\ now = 0
    /\ last = NoCall
    /\ issued = <<>>

\* Time passes: Date.now() returns a later value.
Tick ==
    /\ now < MaxClock
    /\ now' = now + 1
    /\ UNCHANGED <<blockIdCounter, last, issued>>
    /\ UNCHANGED nonAdapterVars

Discard ==
    /\ last.op # "none"
    /\ last' = NoCall
    /\ UNCHANGED <<blockIdCounter, now, issued>>
    /\ UNCHANGED nonAdapterVars

ConvertPartToBlock ==
    /\ last.op = "none"
    /\ blockIdCounter < MaxCounter
    /\ \E part \in Parts, opts \in Options :
         LET r == convertPartToBlock(part, opts, now, blockIdCounter)
         IN  /\ last' = [op |-> "convertPartToBlock", input |-> part, opts |-> opts,
                         output |-> r.block, origin |-> <<>>]
             /\ blockIdCounter' = r.counter
             /\ issued' = issued \o IssuedBy(opts, r.block)
    /\ UNCHANGED now
    /\ UNCHANGED nonAdapterVars

FromVercelMessage ==
    /\ last.op = "none"
    /\ \E message \in Messages, opts \in Options :
         /\ blockIdCounter + Len(message.parts) <= MaxCounter
         /\ LET r == fromVercelMessage(message, opts, now, blockIdCounter)
            IN  /\ last' = [op |-> "fromVercelMessage", input |-> message,
                            opts |-> opts, output |-> r.conversation]
                /\ blockIdCounter' = r.counter
                /\ issued' = issued \o IssuedBy(opts, r.conversation.blocks)
    /\ UNCHANGED now
    /\ UNCHANGED nonAdapterVars

ConvertBlockToParts ==
    /\ last.op = "none"
    /\ \E block \in Blocks :
         last' = [op |-> "convertBlockToParts", input |-> block,
                  output |-> convertBlockToParts(block)]
    /\ UNCHANGED <<blockIdCounter, now, issued>>
    /\ UNCHANGED nonAdapterVars

\* The part a reverse conversion has just produced is converted forward again
\* (the round trip IR -> wire -> IR); `origin' keeps the block it came from.
ConvertPartBack ==
    /\ last.op = "convertBlockToParts"
    /\ Len(last.output) = 1
    /\ blockIdCounter < MaxCounter
    /\ LET r == convertPartToBlock(last.output[1], DefaultOptions, now, blockIdCounter)
       IN  /\ last' = [op |-> "convertPartToBlock", input |-> last.output[1],
                       opts |-> DefaultOptions, output |-> r.block,
                       origin |-> <<last.input>>]
           /\ blockIdCounter' = r.counter
           /\ issued' = issued \o IssuedBy(DefaultOptions, r.block)
    /\ UNCHANGED now
    /\ UNCHANGED nonAdapterVars

\* The message a conversion has just been given is converted again, with the
\* same options; `first' keeps the conversation the first conversion returned.
ConvertAgain ==
    /\ last.op = "fromVercelMessage"
    /\ blockIdCounter + Len(last.input.parts) <= MaxCounter
    /\ LET r == fromVercelMessage(last.input, last.opts, now, blockIdCounter)
       IN  /\ last' = [op |-> "fromVercelMessageAgain", input |-> last.input,
                       opts |-> last.opts, first |-> last.output,
                       output |-> r.conversation]
           /\ blockIdCounter' = r.counter
           /\ issued' = issued \o IssuedBy(last.opts, r.conversation.blocks)
    /\ UNCHANGED now
    /\ UNCHANGED nonAdapterVars

ToVercelMessage ==
    /\ last.op = "none"
    /\ \E conversation \in Conversations :
         last' = [op |-> "toVercelMessage", input |-> conversation,
                  output |-> toVercelMessage(conversation)]
    /\ UNCHANGED <<blockIdCounter, now, issued>>
    /\ UNCHANGED nonAdapterVars

\* The three tool status helpers applied to one tool block.
ToolStatusHelpers ==
    /\ last.op = "none"
    /\ \E block \in ToolBlocks :
         last' = [op |-> "toolStatusHelpers", input |-> block,
                  output |-> [awaiting |-> isToolAwaitingApproval(block),
                              terminal |-> isToolTerminal(block),
                              executing |-> isToolExecuting(block)]]
    /\ UNCHANGED <<blockIdCounter, now, issued>>
    /\ UNCHANGED nonAdapterVars

Next ==
    \/ Tick
    \/ Discard
    \/ ConvertPartToBlock
    \/ FromVercelMessage
    \/ ConvertBlockToParts
    \/ ConvertPartBack
    \/ ConvertAgain
    \/ ToVercelMessage
    \/ ToolStatusHelpers

vars == <<adapterVars, streamVars, typingVars, healVars, approvalVars, eventVars>>

Init == InitAdapter /\ InitStream /\ InitTyping /\ InitHeal /\ InitApproval /\ InitEvents

Spec == Init /\ [][Next]_vars

-----------------------------------------------------------------------------
(* useAsyncStream as a state machine: one component, its effect runs, the    *)
(* consumptions they start and the sources.  A consumption c is runs[c]:     *)
(*   src        the source it iterates                                       *)
(*   cancelled  the flag of its closure (index.ts:147, 181)                  *)
(*   pc         "awaiting" a next(), "resolved" (the next() has settled and  *)
(*              the continuation of consume has not run yet), "done"         *)
(*   inflight   the settled result the continuation will see                 *)
(*   delivered  the chunks the source has handed to it, lastResult the kind  *)
(*              of the last result (what the source did, not the hook)       *)
(*   complete, errors  the calls of its onComplete and onError, reported the *)
(*              errors onError was called with                               *)
(* A source s is src[s]: pos fragments produced; closed "open", "closed" or  *)
(* "errored" (thrown: the stored error of an errored stream); queue, the     *)
(* requests an async generator has not served yet; lock, the consumption     *)
(* holding a ReadableStream's reader, 0 if none; uses, the consumptions      *)
(* started on it.  Callbacks are always given; replacing one re-runs the     *)
(* effect (deps of index.ts:183), which is all its identity is read for.     *)

IsPull(s) == SourceKind(s) = "pull"

\* The consumption whose next() the source settles next, 0 if none: the head of
\* a generator's queue, or the reader of a stream while its read is pending.
Served(s) ==
    IF IsPull(s)
    THEN IF src[s].queue # <<>> /\ Head(src[s].queue).kind = "next"
         THEN Head(src[s].queue).by ELSE 0
    ELSE IF src[s].lock # 0 /\ runs[src[s].lock].pc = "awaiting"
         THEN src[s].lock ELSE 0

\* next() of consumption c settles with result r.
Settled(c, r) ==
    [runs EXCEPT ![c].pc = "resolved",
                 ![c].inflight = <<r>>,
                 ![c].lastResult = r.kind,
                 ![c].delivered = IF r.kind = "value" THEN Append(@, r.chunk) ELSE @]

\* The source yields its next fragment.
SourceYield ==
    /\ \E s \in Sources :
         /\ Served(s) # 0
         /\ src[s].closed = "open"
         /\ src[s].pos < MaxFragments
         /\ runs' = Settled(Served(s), ValueResult(Fragment(s, src[s].pos + 1)))
         /\ src' = [src EXCEPT ![s].pos = @ + 1,
                               ![s].queue = IF IsPull(s) THEN Tail(@) ELSE @]
    /\ UNCHANGED <<mounted, stream, text, isStreaming, error, cur>>
    /\ UNCHANGED nonStreamVars

\* The source ends (or has ended): next() settles with done.  The wrapper of a
\* ReadableStream leaves its loop and releases the lock (index.ts:247, 251).
SourceEnd ==
    /\ \E s \in Sources :
         /\ Served(s) # 0
         /\ src[s].closed # "errored"
         /\ runs' = Settled(Served(s), DoneResult)
         /\ src' = [src EXCEPT ![s].closed = "closed",
                               ![s].queue = IF IsPull(s) THEN Tail(@) ELSE @,
                               ![s].lock = 0]
    /\ UNCHANGED <<mounted, stream, text, isStreaming, error, cur>>
    /\ UNCHANGED nonStreamVars

\* The source fails: next() rejects.  A generator that threw is finished; an
\* errored stream rejects every later read with the same error, and the wrapper
\* releases the lock on its way out (index.ts:250-252).
SourceFail ==
    /\ \E s \in Sources, err \in Thrown :
         /\ Served(s) # 0
         /\ \/ src[s].closed = "open"
            \/ src[s].closed = "errored" /\ err = src[s].thrown
         /\ runs' = Settled(Served(s), ErrorResult(err))
         /\ src' = [src EXCEPT ![s].closed = IF IsPull(s) THEN "closed" ELSE "errored",
                               ![s].thrown = err,
                               ![s].queue = IF IsPull(s) THEN Tail(@) ELSE @,
                               ![s].lock = 0]
    /\ UNCHANGED <<mounted, stream, text, isStreaming, error, cur>>
    /\ UNCHANGED nonStreamVars

\* An async generator serves a return() request (the `break' of a cancelled
\* consumption): it is finished from then on.
GeneratorReturn ==
    /\ \E s \in Sources :
         /\ IsPull(s)
         /\ src[s].queue # <<>>
         /\ Head(src[s].queue).kind = "return"
         /\ src' = [src EXCEPT ![s].closed = "closed", ![s].queue = Tail(@)]
    /\ UNCHANGED <<mounted, stream, text, isStreaming, error, runs, cur>>
    /\ UNCHANGED nonStreamVars

\* A slip: the continuation of consume never looks at the flag.
SeesCancelled_Never(c) == FALSE

\* if (cancelled) / if (!cancelled) in consume (index.ts:160, 164, 169): the
\* flag of the closure consumption c runs in.
SeesCancelled(c) == runs[c].cancelled

\* setText((prev) => prev + chunk)
AppendChunk_Prepended(prev, chunk) == chunk \o prev

AppendChunk(prev, chunk) == prev \o chunk

\* A slip: the effect returns no cleanup.
Cleanup_Nothing(rs) == rs

\* The cleanup of the effect in force (index.ts:180-182), applied to the
\* consumptions rs: the flag of its closure is set.
Cleanup(rs) == IF cur = 0 THEN rs ELSE [rs EXCEPT ![cur].cancelled = TRUE]

\* The effect (index.ts:140-183) runs for stream argument s: the cleanup of the
\* effect in force first, then the body up to the first await of consume.
RunEffect(s) ==
    LET cleaned == Cleanup(runs)
    IN  IF s = NoStream
        THEN /\ text' = <<>>
             /\ isStreaming' = FALSE
             /\ runs' = cleaned
             /\ cur' = 0
             /\ UNCHANGED <<error, src>>
        ELSE LET c == Len(runs) + 1
                 locked == ~IsPull(s) /\ src[s].lock # 0
             IN  /\ Len(runs) < MaxRuns
                 /\ isStreaming' = TRUE
                 /\ text' = <<>>
                 /\ error' = <<>>
                 /\ runs' = Append(cleaned,
                        [src |-> s, cancelled |-> FALSE,
                         pc |-> IF locked THEN "resolved" ELSE "awaiting",
                         inflight |-> IF locked THEN <<ErrorResult(LockedError)>> ELSE <<>>,
                         delivered |-> <<>>,
                         lastResult |-> IF locked THEN "error" ELSE "none",
                         complete |-> 0, errors |-> 0, reported |-> <<>>])
                 /\ cur' = c
                 /\ src' = [src EXCEPT
                        ![s].uses = @ + 1,
                        ![s].queue = IF IsPull(s)
                                     THEN Append(@, [kind |-> "next", by |-> c]) ELSE @,
                        ![s].lock = IF ~IsPull(s) /\ ~locked THEN c ELSE @]

Mount ==
    /\ mounted = "no"
    /\ mounted' = "yes"
    /\ \E s \in Sources \cup {NoStream} : stream' = s /\ RunEffect(s)
    /\ UNCHANGED nonStreamVars

\* The stream argument changes.
SetStream ==
    /\ mounted = "yes"
    /\ \E s \in (Sources \cup {NoStream}) \ {stream} : stream' = s /\ RunEffect(s)
    /\ UNCHANGED mounted
    /\ UNCHANGED nonStreamVars

\* The onComplete argument is another function.
ReplaceOnComplete ==
    /\ mounted = "yes"
    /\ RunEffect(stream)
    /\ UNCHANGED <<mounted, stream>>
    /\ UNCHANGED nonStreamVars

\* The onError argument is another function.
ReplaceOnError ==
    /\ mounted = "yes"
    /\ RunEffect(stream)
    /\ UNCHANGED <<mounted, stream>>
    /\ UNCHANGED nonStreamVars

\* The component unmounts: the cleanup of the effect in force.
Unmount ==
    /\ mounted = "yes"
    /\ mounted' = "gone"
    /\ runs' = Cleanup(runs)
    /\ cur' = 0
    /\ UNCHANGED <<stream, text, isStreaming, error, src>>
    /\ UNCHANGED nonStreamVars

\* The continuation of consume after a next() that yielded a chunk
\* (index.ts:159-162).
ResumeValue ==
    /\ \E c \in 1..Len(runs) :
         /\ runs[c].pc = "resolved"
         /\ runs[c].inflight[1].kind = "value"
         /\ IF SeesCancelled(c)
            THEN \* break: the iterator's return() is called
                 /\ runs' = [runs EXCEPT ![c].pc = "done", ![c].inflight = <<>>]
                 /\ src' = [src EXCEPT
                        ![runs[c].src].queue =
                            IF IsPull(runs[c].src)
                            THEN Append(@, [kind |-> "return", by |-> c]) ELSE @,
                        ![runs[c].src].lock = IF IsPull(runs[c].src) THEN @ ELSE 0]
                 /\ UNCHANGED text
            ELSE /\ text' = AppendChunk(text, runs[c].inflight[1].chunk)
                 /\ runs' = [runs EXCEPT ![c].pc = "awaiting", ![c].inflight = <<>>]
                 /\ src' = [src EXCEPT
                        ![runs[c].src].queue =
                            IF IsPull(runs[c].src)
                            THEN Append(@, [kind |-> "next", by |-> c]) ELSE @]
    /\ UNCHANGED <<mounted, stream, isStreaming, error, cur>>
    /\ UNCHANGED nonStreamVars

\* The continuation of consume after the loop has ended (index.ts:164-167);
\* onComplete returns or throws, and what it throws is caught at line 168.
ResumeDone ==
    /\ \E c \in 1..Len(runs) :
         /\ runs[c].pc = "resolved"
         /\ runs[c].inflight[1].kind = "done"
         /\ IF SeesCancelled(c)
            THEN /\ runs' = [runs EXCEPT ![c].pc = "done", ![c].inflight = <<>>]
                 /\ UNCHANGED <<isStreaming, error>>
            ELSE /\ isStreaming' = FALSE
                 /\ \/ /\ runs' = [runs EXCEPT ![c].pc = "done", ![c].inflight = <<>>,
                                               ![c].complete = @ + 1]
                       /\ UNCHANGED error
                    \/ \E err \in Thrown :
                       /\ runs' = [runs EXCEPT ![c].pc = "done", ![c].inflight = <<>>,
                                               ![c].complete = @ + 1,
                                               ![c].errors = @ + 1,
                                               ![c].reported = Append(@, ToError(err))]
                       /\ error' = <<ToError(err)>>
    /\ UNCHANGED <<mounted, stream, text, cur, src>>
    /\ UNCHANGED nonStreamVars

\* The continuation of consume after a next() that rejected (index.ts:168-175).
ResumeError ==
    /\ \E c \in 1..Len(runs) :
         /\ runs[c].pc = "resolved"
         /\ runs[c].inflight[1].kind = "error"
         /\ IF SeesCancelled(c)
            THEN /\ runs' = [runs EXCEPT ![c].pc = "done", ![c].inflight = <<>>]
                 /\ UNCHANGED <<isStreaming, error>>
            ELSE /\ error' = <<ToError(runs[c].inflight[1].thrown)>>
                 /\ isStreaming' = FALSE
                 /\ runs' = [runs EXCEPT
                        ![c].pc = "done", ![c].inflight = <<>>,
                        ![c].errors = @ + 1,
                        ![c].reported = Append(@, ToError(runs[c].inflight[1].thrown))]
    /\ UNCHANGED <<mounted, stream, text, cur, src>>
    /\ UNCHANGED nonStreamVars

NextStream ==
    \/ Mount
    \/ SetStream
    \/ ReplaceOnComplete
    \/ ReplaceOnError
    \/ Unmount
    \/ SourceYield
    \/ SourceEnd
    \/ SourceFail
    \/ GeneratorReturn
    \/ ResumeValue
    \/ ResumeDone
    \/ ResumeError

SpecStream == Init /\ [][NextStream]_vars

\* The continuation of a settled await runs and a generator serves the requests
\* queued on it; nothing obliges a source to yield, end or fail, nor the
\* component to be re-rendered.
FairStream ==
    /\ WF_vars(ResumeValue)
    /\ WF_vars(ResumeDone)
    /\ WF_vars(ResumeError)
    /\ WF_vars(GeneratorReturn)

SpecStreamFair == Init /\ [][NextStream]_vars /\ FairStream

-----------------------------------------------------------------------------
(* useTypingAnimation as a state machine.  An animation a is anims[a]: str,  *)
(* the string it reveals; index, the local of its closure (index.ts:209);    *)
(* live, whether its interval timer is set; complete, the calls of its       *)
(* onComplete.                                                               *)

\* The cleanup of the effect in force (index.ts:221): clearInterval(timer).
ClearTimer(as) == IF anim = 0 THEN as ELSE [as EXCEPT ![anim].live = FALSE]

\* The effect (index.ts:199-222) runs for text argument t.
TypingEffect(t) ==
    IF IsFalsy(t)
    THEN /\ displayText' = <<>>
         /\ isTyping' = FALSE
         /\ anims' = ClearTimer(anims)
         /\ anim' = 0
    ELSE /\ Len(anims) < MaxAnims
         /\ isTyping' = TRUE
         /\ displayText' = <<>>
         /\ anims' = Append(ClearTimer(anims),
                            [str |-> t[1], index |-> 0, live |-> TRUE, complete |-> 0])
         /\ anim' = Len(anims) + 1

\* text.slice(0, index + 1)
Reveal(str, index) == SubSeq(str, 1, index + 1)

\* The callback of a live interval timer fires (index.ts:210-219).
TimerTick ==
    /\ \E a \in 1..Len(anims) :
         /\ anims[a].live
         /\ IF anims[a].index < Len(anims[a].str)
            THEN /\ displayText' = Reveal(anims[a].str, anims[a].index)
                 /\ anims' = [anims EXCEPT ![a].index = @ + 1]
                 /\ UNCHANGED isTyping
            ELSE /\ anims' = [anims EXCEPT ![a].live = FALSE, ![a].complete = @ + 1]
                 /\ isTyping' = FALSE
                 /\ UNCHANGED displayText
    /\ UNCHANGED <<textProp, textArg, speed, anim>>
    /\ UNCHANGED streamVars
    /\ UNCHANGED nonTypingVars

\* What the hook alone leaves alone in the component.
hookFree == <<stream, text, isStreaming, error, runs, cur, src, textProp>>

TypingMount ==
    /\ mounted = "no"
    /\ mounted' = "yes"
    /\ \E t \in TextInputs, sp \in Speeds :
         /\ textArg' = t
         /\ speed' = sp
         /\ TypingEffect(t)
    /\ UNCHANGED hookFree
    /\ UNCHANGED nonTypingVars

\* The text argument changes.
SetTextArg ==
    /\ mounted = "yes"
    /\ \E t \in TextInputs \ {textArg} : textArg' = t /\ TypingEffect(t)
    /\ UNCHANGED <<mounted, speed>>
    /\ UNCHANGED hookFree
    /\ UNCHANGED nonTypingVars

\* The speed argument changes.
SetSpeed ==
    /\ mounted = "yes"
    /\ \E sp \in Speeds \ {speed} : speed' = sp
    /\ TypingEffect(textArg)
    /\ UNCHANGED <<mounted, textArg>>
    /\ UNCHANGED hookFree
    /\ UNCHANGED nonTypingVars

\* The onComplete argument is another function.
ReplaceTypingOnComplete ==
    /\ mounted = "yes"
    /\ TypingEffect(textArg)
    /\ UNCHANGED <<mounted, textArg, speed>>
    /\ UNCHANGED hookFree
    /\ UNCHANGED nonTypingVars

\* The component unmounts: the cleanup of the effect in force.
TypingUnmount ==
    /\ mounted = "yes"
    /\ mounted' = "gone"
    /\ anims' = ClearTimer(anims)
    /\ anim' = 0
    /\ UNCHANGED <<textArg, speed, displayText, isTyping>>
    /\ UNCHANGED hookFree
    /\ UNCHANGED nonTypingVars

NextTyping ==
    \/ TypingMount
    \/ SetTextArg
    \/ SetSpeed
    \/ ReplaceTypingOnComplete
    \/ TypingUnmount
    \/ TimerTick

SpecTyping == Init /\ [][NextTyping]_vars

-----------------------------------------------------------------------------
(* StreamMarkdown (stream/src/components/StreamMarkdown.tsx:41-47): the      *)
(* content prop grows while the message streams, and every render repairs it *)
(* with healMarkdown; the last render, isStreaming false, shows it as it is. *)

\* One more character has arrived: a render with isStreaming true.
StreamContent ==
    /\ Len(mdContent) < MaxContent
    /\ IF processedContent = <<>> THEN TRUE ELSE processedContent[1].streaming
    /\ \E ch \in MarkdownChars :
         LET buffer == Append(mdContent, ch)
         IN  /\ mdContent' = buffer
             /\ processedContent' = Render(buffer, TRUE)
    /\ UNCHANGED nonHealVars

\* The message is complete: a render with isStreaming false.
FinishContent ==
    /\ processedContent # <<>>
    /\ processedContent[1].streaming
    /\ processedContent' = Render(mdContent, FALSE)
    /\ UNCHANGED mdContent
    /\ UNCHANGED nonHealVars

\* The repaired text is itself given as content while streaming: it is
\* repaired a second time.
StreamHealedContent ==
    /\ processedContent # <<>>
    /\ processedContent[1].streaming
    /\ processedContent[1].pass = 1
    /\ LET healed == processedContent[1].result
       IN  processedContent' =
               <<[of |-> healed, streaming |-> TRUE, pass |-> 2,
                  result |-> healMarkdown(healed)]>>
    /\ UNCHANGED mdContent
    /\ UNCHANGED nonHealVars

NextHeal ==
    \/ StreamContent
    \/ FinishContent
    \/ StreamHealedContent

SpecHeal == Init /\ [][NextHeal]_vars

-----------------------------------------------------------------------------
(* ToolResult (agent/src/components/MessageAvatar.tsx:396-447) in the host   *)
(* of the ApprovalRequired story (ToolResult.stories.tsx:70-99).  The host   *)
(* renders the component with a status and with or without each handler; a   *)
(* click is handled, and the component rendered again, before the next one.  *)

\* A slip: the buttons are shown whatever the status.
showApprovalButtons_Always == handlers.onApprove \/ handlers.onDeny

\* status === 'approval-required' && (onApprove || onDeny)
showApprovalButtons ==
    toolStatus = "approval-required" /\ (handlers.onApprove \/ handlers.onDeny)

\* The host renders the component for the first time.
RenderToolResult ==
    /\ toolStatus = Absent
    /\ \E st \in ToolStatus, h \in HandlerInputs, c \in BOOLEAN :
         /\ toolStatus' = st
         /\ handlers' = h
         /\ collapsed' = c
    /\ UNCHANGED <<timers, decisions>>
    /\ UNCHANGED nonApprovalVars

\* The header is clicked and the host's onToggle flips collapsed.
ToggleCollapsed ==
    /\ toolStatus # Absent
    /\ handlers.onToggle
    /\ collapsed' = ~collapsed
    /\ UNCHANGED <<toolStatus, handlers, timers, decisions>>
    /\ UNCHANGED nonApprovalVars

\* The Approve button is clicked: the host's onApprove
\* (ToolResult.stories.tsx:79-83).
ClickApprove ==
    /\ toolStatus # Absent
    /\ showApprovalButtons
    /\ handlers.onApprove
    /\ toolStatus' = "approved"
    /\ timers' = timers \cup {[due |-> 500, to |-> "running"],
                              [due |-> 2000, to |-> "success"]}
    /\ decisions' = Append(decisions, "approve")
    /\ UNCHANGED <<handlers, collapsed>>
    /\ UNCHANGED nonApprovalVars

\* The Deny button is clicked: the host's onDeny (ToolResult.stories.tsx:84-87).
ClickDeny ==
    /\ toolStatus # Absent
    /\ showApprovalButtons
    /\ handlers.onDeny
    /\ toolStatus' = "denied"
    /\ decisions' = Append(decisions, "deny")
    /\ UNCHANGED <<handlers, collapsed, timers>>
    /\ UNCHANGED nonApprovalVars

\* The pending timeout that is due first fires: setStatus(to).
TimeoutFires ==
    /\ \E t \in timers :
         /\ \A u \in timers : t.due <= u.due
         /\ toolStatus' = t.to
         /\ timers' = timers \ {t}
    /\ UNCHANGED <<handlers, collapsed, decisions>>
    /\ UNCHANGED nonApprovalVars

NextApproval ==
    \/ RenderToolResult
    \/ ToggleCollapsed
    \/ ClickApprove
    \/ ClickDeny
    \/ TimeoutFires

SpecApproval == Init /\ [][NextApproval]_vars

-----------------------------------------------------------------------------
(* processEvent (apps/storybook/src/stories/ProtocolDemo.tsx:194-248): the   *)
(* reducer that folds the events of a message into a conversation.           *)

\* JSON.parse on the payloads above: blanks are skipped; a number, an empty
\* object or an object with the member k parse, anything else throws.
JSONparse(payload) ==
    LET t == SelectSeq(payload, LAMBDA c : c # " ")
    IN  IF t = <<"1">>
        THEN [ok |-> TRUE, value |-> JsonNumber(1)]
        ELSE IF t = <<"{", "}">>
        THEN [ok |-> TRUE, value |-> JsonObject({})]
        ELSE IF t = <<"{", "k", ":", "1", "}">>
        THEN [ok |-> TRUE, value |-> JsonObject({<<"k", JsonNumber(1)>>})]
        ELSE [ok |-> FALSE, value |-> JsonObject({})]

\* A slip: a payload that does not parse clears the input.
ParsedInput_ClearedOnFailure(prev, payload) ==
    LET parsed == JSONparse(payload)
    IN  IF parsed.ok THEN Input(parsed.value) ELSE MissingInput

\* try { input = JSON.parse(partial_json) } catch {}
ParsedInput(prev, payload) ==
    LET parsed == JSONparse(payload)
    IN  IF parsed.ok THEN Input(parsed.value) ELSE prev

\* field += fragment: a missing field reads as the string "undefined".
Concatenated(field, fragment) ==
    Str((IF field.present THEN field.chars ELSE <<"undefined">>) \o fragment)

NoContent ==
    [reasoning |-> Missing, text |-> Missing, name |-> AbsentName,
     input |-> MissingInput, status |-> Absent]

\* The block of a content_block_start event (lines 207-215).
NewBlock(data) ==
    [id |-> <<"block", data.index>>,
     type |-> IF data.type = "thinking" THEN "thinking"
              ELSE IF data.type = "tool_use" THEN "tool" ELSE "text",
     status |-> "streaming",
     content |-> IF data.type = "thinking"
                 THEN [NoContent EXCEPT !.reasoning = Str(<<>>)]
                 ELSE IF data.type = "tool_use"
                 THEN [NoContent EXCEPT !.name = data.name,
                                        !.input = Input(JsonObject({})),
                                        !.status = "running"]
                 ELSE [NoContent EXCEPT !.text = Str(<<>>)]]

\* A slip: the new block takes the place of the last one.
PushBlock_OverLast(blocks, block) ==
    IF blocks = <<>> THEN <<block>>
    ELSE [blocks EXCEPT ![Len(blocks)] = block]

\* updated.blocks.push(newBlock)
PushBlock(blocks, block) == Append(blocks, block)

\* The last block after a content_block_delta event (lines 222-228).
DeltaApplied(block, data) ==
    IF data.type = "thinking_delta"
    THEN [block EXCEPT !.content.reasoning = Concatenated(@, data.payload)]
    ELSE IF data.type = "text_delta"
    THEN [block EXCEPT !.content.text = Concatenated(@, data.payload)]
    ELSE IF data.type = "input_json_delta"
    THEN [block EXCEPT !.content.input = ParsedInput(@, data.payload)]
    ELSE block

\* The block at the index of a content_block_stop event (lines 235-238).
Stopped(block) ==
    IF block.type = "tool"
    THEN [block EXCEPT !.status = "completed", !.content.status = "success"]
    ELSE [block EXCEPT !.status = "completed"]

\* The updater of setConversation: prev is <<>> for null; t is Date.now().
processEvent(prev, event, t) ==
    IF prev = <<>>
    THEN IF event.type = "message_start"
         THEN <<[id |-> <<"conv", t>>, role |-> "assistant", status |-> "streaming",
                 blocks |-> <<>>, timestamp |-> t]>>
         ELSE <<>>
    ELSE LET updated == prev[1]
             blocks == updated.blocks
             idx == event.data.index + 1
         IN  IF event.type = "content_block_start"
             THEN <<[updated EXCEPT !.blocks = PushBlock(blocks, NewBlock(event.data))]>>
             ELSE IF event.type = "content_block_delta"
             THEN IF blocks = <<>>
                  THEN <<updated>>
                  ELSE <<[updated EXCEPT !.blocks[Len(blocks)] =
                                           DeltaApplied(@, event.data)]>>
             ELSE IF event.type = "content_block_stop"
             THEN IF idx \in 1..Len(blocks)
                  THEN <<[updated EXCEPT !.blocks[idx] = Stopped(@)]>>
                  ELSE <<updated>>
             ELSE IF event.type = "message_stop"
             THEN <<[updated EXCEPT !.status = "completed"]>>
             ELSE <<updated>>

\* processEvent is given one event.
Process(event) ==
    /\ conversationState' = processEvent(conversationState, event, now)
    /\ activeEvent' = <<event>>
    /\ handled' = handled + 1
    /\ UNCHANGED nonEventVars

MessageStart ==
    /\ handled < MaxEvents
    /\ Process(MessageStartEvent)

ContentBlockStart ==
    /\ handled < MaxEvents
    /\ \E e \in StartEvents : Process(e)

ContentBlockDelta ==
    /\ handled < MaxEvents
    /\ \E e \in DeltaEvents : Process(e)

ContentBlockStop ==
    /\ handled < MaxEvents
    /\ \E e \in StopEvents : Process(e)

MessageStop ==
    /\ handled < MaxEvents
    /\ Process(MessageStopEvent)

\* runDemo starts over: setConversation(null) (lines 250-254).
RunDemo ==
    /\ conversationState # <<>>
    /\ conversationState' = <<>>
    /\ activeEvent' = <<>>
    /\ UNCHANGED handled
    /\ UNCHANGED nonEventVars

NextEvents ==
    \/ MessageStart
    \/ ContentBlockStart
    \/ ContentBlockDelta
    \/ ContentBlockStop
    \/ MessageStop
    \/ RunDemo

SpecEvents == Init /\ [][NextEvents]_vars

-----------------------------------------------------------------------------
(* StreamText (agent/src/index.ts:284-346): one component calling            *)
(* useAsyncStream(stream, onComplete, onError) and useTypingAnimation(       *)
(* stream ? undefined : text, speed, stream ? undefined : onComplete).  The  *)
(* effects of one render run in one commit, their state updates batched.     *)
(* onComplete and onError are always given; speed keeps its default.         *)

\* The text prop: missing, or the longest string of the first family.
TextProps == {NoText, <<StaticText(1, MaxText)>>}

\* A slip: the text is handed to the typing hook whatever the stream.
TypingTextArg_Always(strm, txt) == txt

\* stream ? undefined : text  (index.ts:308)
TypingTextArg(strm, txt) == IF strm # NoStream THEN NoText ELSE txt

\* The typing hook's part of a render with stream s and text t: its effect
\* re-runs when one of its dependencies (index.ts:222) has changed; its
\* onComplete argument (index.ts:310) changes with the presence of a stream,
\* or, `replaced' being true, when the prop is another function and no stream
\* is given.
TypingRender(s, t, replaced) ==
    LET arg == TypingTextArg(s, t)
        changed == \/ arg # textArg
                   \/ (s = NoStream) # (stream = NoStream)
                   \/ replaced /\ s = NoStream
    IN  /\ textArg' = arg
        /\ IF changed
           THEN TypingEffect(arg)
           ELSE UNCHANGED <<displayText, isTyping, anims, anim>>

STMount ==
    /\ mounted = "no"
    /\ mounted' = "yes"
    /\ \E s \in Sources \cup {NoStream}, t \in TextProps :
         /\ stream' = s
         /\ textProp' = t
         /\ RunEffect(s)
         /\ textArg' = TypingTextArg(s, t)
         /\ TypingEffect(TypingTextArg(s, t))
    /\ UNCHANGED speed
    /\ UNCHANGED nonTypingVars

\* The stream prop changes.
STSetStream ==
    /\ mounted = "yes"
    /\ \E s \in (Sources \cup {NoStream}) \ {stream} :
         /\ stream' = s
         /\ RunEffect(s)
         /\ TypingRender(s, textProp, FALSE)
    /\ UNCHANGED <<mounted, textProp, speed>>
    /\ UNCHANGED nonTypingVars

\* The text prop changes.
STSetText ==
    /\ mounted = "yes"
    /\ \E t \in TextProps \ {textProp} :
         /\ textProp' = t
         /\ TypingRender(stream, t, FALSE)
    /\ UNCHANGED speed
    /\ UNCHANGED streamVars
    /\ UNCHANGED nonTypingVars

\* The onComplete prop is another function.
STReplaceOnComplete ==
    /\ mounted = "yes"
    /\ RunEffect(stream)
    /\ TypingRender(stream, textProp, TRUE)
    /\ UNCHANGED <<mounted, stream, textProp, speed>>
    /\ UNCHANGED nonTypingVars

\* The onError prop is another function.
STReplaceOnError ==
    /\ mounted = "yes"
    /\ RunEffect(stream)
    /\ UNCHANGED <<mounted, stream>>
    /\ UNCHANGED typingVars
    /\ UNCHANGED nonTypingVars

\* The component unmounts: the cleanups of both effects.
STUnmount ==
    /\ mounted = "yes"
    /\ mounted' = "gone"
    /\ runs' = Cleanup(runs)
    /\ cur' = 0
    /\ anims' = ClearTimer(anims)
    /\ anim' = 0
    /\ UNCHANGED <<stream, text, isStreaming, error, src>>
    /\ UNCHANGED <<textProp, textArg, speed, displayText, isTyping>>
    /\ UNCHANGED nonTypingVars

NextStreamText ==
    \/ STMount
    \/ STSetStream
    \/ STSetText
    \/ STReplaceOnComplete
    \/ STReplaceOnError
    \/ STUnmount
    \/ SourceYield
    \/ SourceEnd
    \/ SourceFail
    \/ GeneratorReturn
    \/ ResumeValue
    \/ ResumeDone
    \/ ResumeError
    \/ TimerTick

SpecStreamText == Init /\ [][NextStreamText]_vars

-----------------------------------------------------------------------------
(* Claims about the adapter and the helpers, checked under Spec *)

IsResult(op) == last.op = op

\* The tool block a convertPartToBlock call has just returned, if any.
ReturnedToolBlock ==
    /\ IsResult("convertPartToBlock")
    /\ Len(last.output) = 1
    /\ last.output[1].type = "tool"

BlockStatuses(blocks) == {blocks[i].status : i \in 1..Len(blocks)}

\* C1: the conversation status fromVercelMessage computes is streaming if any
\* block is streaming (wherever it stands, also after an error block), else
\* error if any block is error, else completed.
C1_ConversationStatus ==
    IsResult("fromVercelMessage") =>
        LET st == BlockStatuses(last.output.blocks)
        IN  last.output.status =
                IF "streaming" \in st THEN "streaming"
                ELSE IF "error" \in st THEN "error" ELSE "completed"

\* C1 witness: a streaming block after an error block, and the status streaming.
C1_Witness ==
    /\ IsResult("fromVercelMessage")
    /\ Len(last.output.blocks) = 3
    /\ last.output.blocks[1].status = "error"
    /\ last.output.blocks[2].status = "completed"
    /\ last.output.blocks[3].status = "streaming"
    /\ last.output.status = "streaming"

\* The forward table of the claim C2, written out.
ForwardTable(state) ==
    IF state \in WireToolStates
    THEN [s \in WireToolStates |->
            CASE s = "input-streaming" -> "streaming"
              [] s = "input-available" -> "ready"
              [] s = "approval-requested" -> "approval-required"
              [] s = "approval-responded" -> "approved"
              [] s = "output-available" -> "success"
              [] s = "output-error" -> "error"
              [] s = "output-denied" -> "denied"][state]
    ELSE "pending"

\* C2: the ToolStatus of a converted tool part is the forward table's image of
\* the part's wire state, pending for any other or missing state, and never
\* running.
C2_ForwardToolState ==
    ReturnedToolBlock =>
        /\ last.output[1].content.status = ForwardTable(last.input.state)
        /\ last.output[1].content.status # "running"

\* C2 witness: an approval-responded part converted to an approved tool block.
C2_Witness ==
    /\ ReturnedToolBlock
    /\ last.input.state = "approval-responded"
    /\ last.output[1].content.status = "approved"

\* The reverse table of the claim C3, written out.
ReverseTable ==
    [s \in ToolStatus |->
        CASE s = "pending" -> "input-streaming"
          [] s = "streaming" -> "input-streaming"
          [] s = "ready" -> "input-available"
          [] s = "approval-required" -> "approval-requested"
          [] s = "approved" -> "approval-responded"
          [] s = "running" -> "approval-responded"
          [] s = "success" -> "output-available"
          [] s = "error" -> "output-error"
          [] s = "denied" -> "output-denied"]

\* C3: the wire state of the part a tool block converts to is the reverse
\* table's image of the block's ToolStatus, for each of the nine values.
C3_ReverseToolState ==
    (IsResult("convertBlockToParts") /\ last.input.type = "tool") =>
        /\ Len(last.output) = 1
        /\ last.output[1].state = ReverseTable[last.input.content.status]

\* C3 witness: a running tool block converted to an approval-responded part.
C3_Witness ==
    /\ IsResult("convertBlockToParts")
    /\ last.input.type = "tool"
    /\ last.input.content.status = "running"
    /\ last.output[1].state = "approval-responded"

\* A round trip has just ended: a tool block was converted to a part and the
\* part converted back.
RoundTripDone ==
    /\ ReturnedToolBlock
    /\ Len(last.origin) = 1
    /\ last.origin[1].type = "tool"

\* C4 as claimed: the round trip gives the ToolStatus back for every status but
\* running, which becomes approved.
C4_RoundTripAsClaimed ==
    RoundTripDone =>
        last.output[1].content.status =
            IF last.origin[1].content.status = "running" THEN "approved"
            ELSE last.origin[1].content.status

\* C4 as amended: the round trip gives the ToolStatus back for every status but
\* running and pending; running becomes approved and pending becomes streaming.
C4_RoundTrip ==
    RoundTripDone =>
        last.output[1].content.status =
            CASE last.origin[1].content.status = "running" -> "approved"
              [] last.origin[1].content.status = "pending" -> "streaming"
              [] OTHER -> last.origin[1].content.status

\* C4 witness: a pending tool block that came back streaming.
C4_Witness ==
    /\ RoundTripDone
    /\ last.origin[1].content.status = "pending"
    /\ last.output[1].content.status = "streaming"

\* C5: the status of a converted block is decided by its part alone: text and
\* reasoning are streaming iff part.state is streaming and completed otherwise;
\* file and source parts are completed; a tool part in one of the seven wire
\* states or without a state is streaming iff input-streaming, error iff
\* output-error, completed otherwise, and so agrees with its ToolStatus on
\* streaming and on error.
C5_BlockStatus ==
    (IsResult("convertPartToBlock") /\ Len(last.output) = 1) =>
        LET part == last.input
            block == last.output[1]
        IN  /\ part.type \in {T_TEXT, T_REASONING} =>
                block.status = IF part.state = "streaming" THEN "streaming" ELSE "completed"
            /\ part.type \in {T_FILE, T_SOURCE_URL, T_SOURCE_DOCUMENT} =>
                block.status = "completed"
            /\ (block.type = "tool" /\ part.state \in WireToolStates \cup {Absent}) =>
                /\ block.status =
                     CASE part.state = "input-streaming" -> "streaming"
                       [] part.state = "output-error" -> "error"
                       [] OTHER -> "completed"
                /\ block.status = "streaming" <=> block.content.status = "streaming"
                /\ block.status = "error" <=> block.content.status = "error"

\* C5 witness: an output-error tool part converted to an error block whose
\* ToolStatus is error.
C5_Witness ==
    /\ ReturnedToolBlock
    /\ last.input.state = "output-error"
    /\ last.output[1].status = "error"
    /\ last.output[1].content.status = "error"

\* The types the claim C6 lists as supported.
ClaimedSupported(type) ==
    \/ type \in {<<"text">>, <<"reasoning">>, <<"file">>, <<"source", "url">>,
                 <<"source", "document">>, <<"dynamic", "tool">>}
    \/ (Len(type) >= 2 /\ type[1] = "tool")

\* The parts of the converted message that pass the filter and are supported.
KeptParts ==
    SelectSeq(last.input.parts,
              LAMBDA p : filterPart(last.opts, p) /\ ClaimedSupported(p.type))

\* C6: the blocks of fromVercelMessage are the images of the parts that pass
\* filterPart and have a supported type, one block per such part and in their
\* order; the other parts give no block.
C6_OrderPreserving ==
    IsResult("fromVercelMessage") =>
        /\ Len(last.output.blocks) = Len(KeptParts)
        /\ Len(last.output.blocks) =
             Len(last.input.parts)
             - Cardinality({i \in 1..Len(last.input.parts) :
                              \/ ~filterPart(last.opts, last.input.parts[i])
                              \/ ~ClaimedSupported(last.input.parts[i].type)})
        /\ \A k \in 1..Len(KeptParts) :
             last.output.blocks[k] = BlockOfPart(KeptParts[k], last.output.blocks[k].id)

\* C6 witness: three parts, the first filtered and the last unsupported, and
\* the one block of the part that stood between them.
C6_Witness ==
    /\ IsResult("fromVercelMessage")
    /\ Len(last.input.parts) = 3
    /\ ~filterPart(last.opts, last.input.parts[1])
    /\ ClaimedSupported(last.input.parts[2].type)
    /\ filterPart(last.opts, last.input.parts[2])
    /\ ~ClaimedSupported(last.input.parts[3].type)
    /\ Len(last.output.blocks) = 1
    /\ last.output.blocks[1].type = "tool"

\* C7: a converted tool part's approval is mirrored in the block (same id,
\* approved and reason); without one the block has none; a dynamic-tool part in
\* approval-requested becomes approval-required.
C7_ApprovalMirrored ==
    ReturnedToolBlock =>
        LET part == last.input
            content == last.output[1].content
        IN  /\ part.approval.present =>
                /\ content.approval.present
                /\ content.approval.id = part.approval.id
                /\ content.approval.approved = part.approval.approved
                /\ content.approval.reason = part.approval.reason
            /\ ~part.approval.present => ~content.approval.present
            /\ (part.type = T_DYNAMIC_TOOL /\ part.state = "approval-requested") =>
                content.status = "approval-required"

\* C7 witness: a dynamic-tool part in approval-requested with an approval that
\* has a reason, converted.
C7_Witness ==
    /\ ReturnedToolBlock
    /\ last.input.type = T_DYNAMIC_TOOL
    /\ last.input.state = "approval-requested"
    /\ last.input.approval.present
    /\ last.input.approval.reason = "too risky"
    /\ last.output[1].content.status = "approval-required"
    /\ last.output[1].content.approval.reason = "too risky"

\* C8: no tool block the adapter produces carries an approval while its
\* ToolStatus is pending, streaming or ready.
C8_NoEarlyApproval ==
    /\ ReturnedToolBlock =>
         (last.output[1].content.status \in {"pending", "streaming", "ready"}
            => ~last.output[1].content.approval.present)
    /\ IsResult("fromVercelMessage") =>
         \A i \in 1..Len(last.output.blocks) :
            (/\ last.output.blocks[i].type = "tool"
             /\ last.output.blocks[i].content.status \in {"pending", "streaming", "ready"})
            => ~last.output.blocks[i].content.approval.present

\* C9: over the nine ToolStatus values, isToolAwaitingApproval holds exactly
\* for approval-required, isToolTerminal exactly for success, error and denied,
\* isToolExecuting exactly for running and approved; the three are pairwise
\* disjoint and every status is exactly one of awaiting, terminal, neither.
C9_ToolPredicates ==
    IsResult("toolStatusHelpers") =>
        LET status == last.input.content.status
            r == last.output
            neither == ~r.awaiting /\ ~r.terminal
        IN  /\ r.awaiting <=> status = "approval-required"
            /\ r.terminal <=> status \in {"success", "error", "denied"}
            /\ r.executing <=> status \in {"running", "approved"}
            /\ ~(r.awaiting /\ r.terminal)
            /\ ~(r.awaiting /\ r.executing)
            /\ ~(r.terminal /\ r.executing)
            /\ Cardinality({x \in {<<1, r.awaiting>>, <<2, r.terminal>>, <<3, neither>>} :
                              x[2]}) = 1

\* C9 witness: the helpers applied to a denied tool block: terminal only.
C9_Witness ==
    /\ IsResult("toolStatusHelpers")
    /\ last.input.content.status = "denied"
    /\ last.output.terminal
    /\ ~last.output.awaiting
    /\ ~last.output.executing

C22_ConversionsPure ==
    IsResult("fromVercelMessageAgain") => last.output = last.first

\* The block types the reverse conversion has a part for.
IsReversible(block) == block.type \in {"text", "thinking", "file", "source", "tool"}

\* The part type a block of a reversible type is turned into.
PartTypeOf(block) ==
    CASE block.type = "text" -> {T_TEXT}
      [] block.type = "thinking" -> {T_REASONING}
      [] block.type = "file" -> {T_FILE}
      [] block.type = "source" -> {T_SOURCE_URL, T_SOURCE_DOCUMENT}
      [] block.type = "tool" -> {T_DYNAMIC_TOOL}

\* C23: toVercelMessage keeps id and role; its parts are, in block order, one
\* per block of type text, thinking, file, source or tool and none for the
\* others; a tool block's part is a dynamic-tool part with the block's id as
\* toolCallId and the block's tool name as toolName.
C23_ReverseConversion ==
    IsResult("toVercelMessage") =>
        LET kept == SelectSeq(last.input.blocks, IsReversible)
            parts == last.output.parts
        IN  /\ last.output.id = last.input.id
            /\ last.output.role = last.input.role
            /\ Len(parts) = Len(kept)
            /\ \A i \in 1..Len(kept) :
                  /\ parts[i].type \in PartTypeOf(kept[i])
                  /\ kept[i].type = "tool" =>
                        /\ parts[i].toolCallId = kept[i].id
                        /\ parts[i].toolName = kept[i].content.name

\* C23 witness: a conversation of two tool blocks gives two dynamic-tool parts
\* in the same order, each with its block's id and name.
C23_Witness ==
    /\ IsResult("toVercelMessage")
    /\ Len(last.input.blocks) = 2
    /\ last.input.blocks[1].type = "tool"
    /\ last.input.blocks[2].type = "tool"
    /\ last.input.blocks[1].id # last.input.blocks[2].id
    /\ Len(last.output.parts) = 2
    /\ last.output.parts[1].toolCallId = last.input.blocks[1].id
    /\ last.output.parts[2].toolCallId = last.input.blocks[2].id
    /\ last.output.parts[2].toolName = last.input.blocks[2].content.name

-----------------------------------------------------------------------------
(* Claims about useAsyncStream, checked under SpecStream *)

RECURSIVE Concat(_)
\* The concatenation of a sequence of strings.
Concat(chunks) == IF chunks = <<>> THEN <<>> ELSE Head(chunks) \o Concat(Tail(chunks))

\* C10: while a consumption is not cancelled, the accumulated text is the
\* concatenation of the chunks its source has handed to it, in that order, all
\* of them but one still in flight; a source consumed for the first time hands
\* out its fragments f1, f2, ... in order; once the source has ended the text
\* is the concatenation of all the chunks, onComplete has been called exactly
\* once and `still receiving' is false; onComplete is not called before that.
C10_AccumulatesInOrder ==
    (cur # 0 /\ ~runs[cur].cancelled) =>
        LET r == runs[cur]
            d == r.delivered
            applied == IF r.pc = "resolved" /\ r.inflight[1].kind = "value"
                       THEN Len(d) - 1 ELSE Len(d)
            ended == r.pc = "done" /\ r.lastResult = "done"
        IN  /\ text = Concat(SubSeq(d, 1, applied))
            /\ src[r.src].uses = 1 => d = [i \in 1..src[r.src].pos |-> Fragment(r.src, i)]
            /\ ended => (text = Concat(d) /\ r.complete = 1 /\ ~isStreaming)
            /\ r.complete <= 1
            /\ r.complete = 1 => ended

\* C10 witness: a source consumed for the first time has yielded two fragments
\* and ended; the text is their concatenation and onComplete was called once.
C10_Witness ==
    /\ cur # 0
    /\ ~runs[cur].cancelled
    /\ src[runs[cur].src].uses = 1
    /\ runs[cur].delivered = <<Fragment(runs[cur].src, 1), Fragment(runs[cur].src, 2)>>
    /\ runs[cur].pc = "done"
    /\ runs[cur].lastResult = "done"
    /\ text = Fragment(runs[cur].src, 1) \o Fragment(runs[cur].src, 2)
    /\ runs[cur].complete = 1
    /\ ~isStreaming


\* C11: a consumption that has ended did so in exactly one way: onComplete was
\* called once and onError not, or onError once and onComplete not, or it was
\* cancelled and neither was called; neither callback is ever called twice,
\* and never both for one consumption.
C11_OneTerminalEvent ==
    \A c \in 1..Len(runs) :
        /\ runs[c].complete <= 1
        /\ runs[c].errors <= 1
        /\ ~(runs[c].complete >= 1 /\ runs[c].errors >= 1)
        /\ runs[c].pc = "done" =>
               \/ runs[c].complete + runs[c].errors = 1
               \/ runs[c].cancelled /\ runs[c].complete + runs[c].errors = 0

\* C12: a cancelled consumption is inert: whatever its source still hands to
\* it, the step that takes it up leaves the text as it is, and its onComplete
\* and onError counts never change; after the unmount the text stays as it
\* was.
C12_CancelledIsInert ==
    [][/\ \A c \in 1..Len(runs) :
              runs[c].cancelled =>
                  /\ runs'[c].complete = runs[c].complete
                  /\ runs'[c].errors = runs[c].errors
                  /\ (runs[c].pc = "resolved" /\ runs'[c].pc # "resolved") => text' = text
       /\ mounted = "gone" => text' = text]_vars

\* C12 witness: the component was unmounted after the first fragment and
\* before the second; the second was delivered and dropped, the text is the
\* first fragment and no callback was called.
C12_Witness ==
    /\ mounted = "gone"
    /\ Len(runs) = 1
    /\ runs[1].cancelled
    /\ runs[1].pc = "done"
    /\ runs[1].lastResult = "value"
    /\ runs[1].delivered = <<Fragment(runs[1].src, 1), Fragment(runs[1].src, 2)>>
    /\ text = Fragment(runs[1].src, 1)
    /\ runs[1].complete = 0
    /\ runs[1].errors = 0

\* C13: a ReadableStream's reader lock held by a cancelled consumption is
\* eventually released, whatever the stream does afterwards.
C13_LockReleased ==
    \A s \in Sources, c \in 1..MaxRuns :
        (~IsPull(s) /\ c <= Len(runs) /\ runs[c].cancelled /\ src[s].lock = c)
            ~> (src[s].lock # c)

\* C14: when the stream argument becomes another source, the consumption in
\* force is cancelled, a new one starts on the new source, the text is empty,
\* `still receiving' true and the error cleared; the text only ever holds
\* characters of the source in the stream argument, and no callback is called
\* for a consumption other than the one in force.
C14_ReplacementRestarts ==
    [][/\ (stream' # stream /\ stream' # NoStream) =>
              /\ cur # 0 => runs'[cur].cancelled
              /\ cur' = Len(runs) + 1
              /\ runs'[cur'].src = stream'
              /\ ~runs'[cur'].cancelled
              /\ text' = <<>>
              /\ isStreaming'
              /\ error' = <<>>
       /\ \A i \in 1..Len(text') : stream' # NoStream /\ text'[i][1] = stream'
       /\ \A c \in 1..Len(runs) :
              c # cur' => /\ runs'[c].complete = runs[c].complete
                          /\ runs'[c].errors = runs[c].errors]_vars

\* C14 witness: a first source was replaced by another one; the old source
\* yielded once more after that, the text is the first fragment of the new
\* source and no callback of the first consumption was called.
C14_Witness ==
    /\ Len(runs) = 2
    /\ cur = 2
    /\ runs[1].src # runs[2].src
    /\ runs[1].cancelled
    /\ runs[1].pc = "done"
    /\ runs[1].lastResult = "value"
    /\ Len(runs[1].delivered) = 2
    /\ runs[1].complete = 0
    /\ runs[1].errors = 0
    /\ text = Fragment(runs[2].src, 1)
    /\ isStreaming

\* C15: the step of an uncancelled consumption that takes up a failure of its
\* source sets the error to an Error with the thrown value's message, sets
\* `still receiving' false, makes the one and only call of onError, with that
\* Error, calls no onComplete, leaves the text as it is and asks the source
\* for nothing more; a consumption that is done stays done.
C15_FailureCaptured ==
    [][\A c \in 1..Len(runs) :
          /\ (/\ ~runs[c].cancelled
               /\ runs[c].pc = "resolved"
               /\ runs[c].inflight[1].kind = "error"
               /\ runs'[c].pc = "done") =>
                 LET e == [isError |-> TRUE,
                           message |-> runs[c].inflight[1].thrown.message]
                 IN  /\ error' = <<e>>
                     /\ ~isStreaming'
                     /\ runs[c].errors = 0
                     /\ runs'[c].errors = 1
                     /\ runs'[c].reported = <<e>>
                     /\ runs'[c].complete = 0
                     /\ text' = text
                     /\ src' = src
                     /\ Len(runs') = Len(runs)
          /\ runs[c].pc = "done" => runs'[c].pc = "done"]_vars

\* C15 witness: the source threw a value that is not an Error after its first
\* fragment; the error is the wrapped value, onError was called once with it
\* and the text is still the first fragment.
C15_Witness ==
    /\ cur # 0
    /\ ~runs[cur].cancelled
    /\ runs[cur].pc = "done"
    /\ runs[cur].lastResult = "error"
    /\ runs[cur].errors = 1
    /\ runs[cur].complete = 0
    /\ runs[cur].reported = <<[isError |-> TRUE, message |-> "oops"]>>
    /\ error = runs[cur].reported
    /\ text = Fragment(runs[cur].src, 1)
    /\ ~isStreaming


\* C30: when onComplete or onError is replaced while the stream argument
\* stays the same source, the consumption in force is cancelled, the text is
\* reset to empty and a new consumption iterates the same source: it has
\* asked the source for its next fragment.
C30_CallbackReplacementRestarts ==
    [][(/\ mounted = "yes"
        /\ mounted' = "yes"
        /\ stream' = stream
        /\ stream # NoStream
        /\ Len(runs') = Len(runs) + 1) =>
            /\ cur # 0 => runs'[cur].cancelled
            /\ text' = <<>>
            /\ cur' = Len(runs) + 1
            /\ runs'[cur'].src = stream
            /\ ~runs'[cur'].cancelled
            /\ runs'[cur'].pc = "awaiting"
            /\ IF IsPull(stream)
               THEN \E i \in 1..Len(src'[stream].queue) :
                        src'[stream].queue[i] = [kind |-> "next", by |-> cur']
               ELSE src'[stream].lock = cur'
      ]_vars

-----------------------------------------------------------------------------
(* Claims about the approval workflow of ToolResult, checked under           *)
(* SpecApproval                                                              *)

\* C24: onApprove and onDeny are called only while the status is
\* approval-required, so the status becomes approved or denied only from
\* approval-required; after one approval or denial neither is called again;
\* and a status of denied or success is never left.
C24_ApprovalOnlyWhenRequired ==
    [][ /\ (decisions' # decisions) =>
              /\ toolStatus = "approval-required"
              /\ decisions = <<>>
        /\ (/\ toolStatus # Absent
            /\ toolStatus' # toolStatus
            /\ toolStatus' \in {"approved", "denied"}) =>
              toolStatus = "approval-required"
        /\ (toolStatus \in {"denied", "success"}) => toolStatus' = toolStatus
      ]_vars

\* An approval has run to its end: approved, running, success.
C24_Witness ==
    /\ decisions = <<"approve">>
    /\ toolStatus = "success"
    /\ timers = {}

-----------------------------------------------------------------------------
(* Claims about useTypingAnimation, checked under SpecTyping *)

\* C16: while the hook is given a static string, of any length, the displayed
\* text is a prefix of it; either the hook is still revealing and the
\* completion callback of the animation has not been called, or the whole
\* string is displayed and the callback has been called exactly once; an
\* animation's callback is called at most once, and only once its whole string
\* is revealed (so not for one torn down or restarted before that).
C16_TypingContract ==
    /\ (mounted = "yes" /\ textArg # NoText) =>
          /\ \E k \in 0..Len(textArg[1]) : displayText = SubSeq(textArg[1], 1, k)
          /\ \/ isTyping /\ anim # 0 /\ anims[anim].complete = 0
             \/ /\ ~isTyping
                /\ displayText = textArg[1]
                /\ anim # 0
                /\ anims[anim].complete = 1
    /\ \A a \in 1..Len(anims) :
          /\ anims[a].complete <= 1
          /\ anims[a].complete = 1 => anims[a].index = Len(anims[a].str)


-----------------------------------------------------------------------------
(* Claims about StreamText, checked under SpecStreamText *)

\* C17: `still receiving' and `still revealing' are never both true; while a
\* stream is supplied the typing hook displays nothing, is not revealing, has
\* no timer set and calls no completion callback; while no stream is supplied
\* the accumulated text is empty, `still receiving' is false, no consumption is
\* in force, nothing is appended and no callback of a consumption is called.
C17_OneModeActive ==
    /\ [](/\ ~(isStreaming /\ isTyping)
          /\ stream # NoStream =>
                /\ displayText = <<>>
                /\ ~isTyping
                /\ \A a \in 1..Len(anims) : ~anims[a].live
          /\ stream = NoStream =>
                /\ text = <<>>
                /\ ~isStreaming
                /\ cur = 0)
    /\ [][/\ (stream # NoStream /\ stream' # NoStream) =>
                /\ displayText' = displayText
                /\ \A a \in 1..Len(anims) : anims'[a].complete = anims[a].complete
          /\ (stream = NoStream /\ stream' = NoStream) =>
                /\ text' = text
                /\ \A c \in 1..Len(runs) :
                      /\ runs'[c].complete = runs[c].complete
                      /\ runs'[c].errors = runs[c].errors]_vars

\* C17 witness: a text was being typed, one unit of it revealed, when a stream
\* was supplied as well; the typing is torn down and displays nothing, and the
\* first fragment of the stream is the accumulated text.
C17_Witness ==
    /\ stream # NoStream
    /\ textProp # NoText
    /\ Len(anims) = 1
    /\ anims[1].index = 1
    /\ ~anims[1].live
    /\ anims[1].complete = 0
    /\ displayText = <<>>
    /\ ~isTyping
    /\ isStreaming
    /\ text = Fragment(stream, 1)


-----------------------------------------------------------------------------
(* Claims about processEvent, checked under SpecEvents *)

\* A step in which processEvent folds an event into an existing conversation.
Reduces ==
    /\ handled' = handled + 1
    /\ conversationState # <<>>
    /\ conversationState' # <<>>

BlocksNow == conversationState[1].blocks

BlocksNext == conversationState'[1].blocks

\* The last block is a tool block whose status is streaming.
ToolBlockStreaming ==
    /\ conversationState # <<>>
    /\ BlocksNow # <<>>
    /\ BlocksNow[Len(BlocksNow)].type = "tool"
    /\ BlocksNow[Len(BlocksNow)].status = "streaming"

\* C25: a block is created with status streaming, and a block whose status
\* is no longer streaming never becomes streaming again.
C25_BlockStatusMonotonic ==
    [][ Reduces =>
          /\ \A i \in 1..Len(BlocksNext) :
                i > Len(BlocksNow) => BlocksNext[i].status = "streaming"
          /\ \A i \in 1..Len(BlocksNow) :
                /\ i <= Len(BlocksNext)
                /\ BlocksNow[i].status # "streaming" =>
                      BlocksNext[i].status # "streaming"
      ]_vars

\* A block was completed and events went on: a later block is streaming and
\* has just taken a delta.
C25_Witness ==
    /\ conversationState # <<>>
    /\ Len(BlocksNow) = 2
    /\ BlocksNow[1].status = "completed"
    /\ BlocksNow[2].status = "streaming"
    /\ activeEvent # <<>>
    /\ activeEvent[1].type = "content_block_delta"

\* C26: the block sequence only grows by appending, and the content of an
\* existing block changes only if the block is the last one and its status
\* is streaming.
C26_AppendOnlyStreamingEdits ==
    [][ Reduces =>
          /\ Len(BlocksNext) >= Len(BlocksNow)
          /\ \A i \in 1..Len(BlocksNow) :
                /\ BlocksNext[i].id = BlocksNow[i].id
                /\ BlocksNext[i].type = BlocksNow[i].type
                /\ BlocksNext[i].content # BlocksNow[i].content =>
                      /\ i = Len(BlocksNow)
                      /\ BlocksNow[i].status = "streaming"
      ]_vars

\* C27: after every event the conversation's status is the aggregate of its
\* blocks' statuses: streaming if any block is streaming, else error if any
\* block is error, else completed.
C27_StatusIsAggregate ==
    conversationState # <<>> =>
        conversationState[1].status =
            InferStatus(conversationState[1].blocks, 1, "completed")

\* C28: while the last block is a streaming tool block, an input_json_delta
\* whose payload does not parse leaves the conversation as it was (input
\* retained, statuses unchanged, nothing recorded), and one whose payload
\* parses makes the parsed value the block's input.
C28_UnparseableInputIgnored ==
    [][ (/\ Reduces
         /\ ToolBlockStreaming
         /\ activeEvent'[1].type = "content_block_delta"
         /\ activeEvent'[1].data.type = "input_json_delta") =>
            LET parsed == JSONparse(activeEvent'[1].data.payload)
            IN  IF parsed.ok
                THEN /\ Len(BlocksNext) = Len(BlocksNow)
                     /\ BlocksNext[Len(BlocksNext)].content.input = Input(parsed.value)
                ELSE conversationState' = conversationState
      ]_vars

\* A payload that does not parse has arrived after one that did: the tool
\* block is streaming and holds the value parsed before.
C28_Witness ==
    /\ ToolBlockStreaming
    /\ activeEvent # <<>>
    /\ activeEvent[1].type = "content_block_delta"
    /\ activeEvent[1].data.type = "input_json_delta"
    /\ ~JSONparse(activeEvent[1].data.payload).ok
    /\ BlocksNow[Len(BlocksNow)].content.input =
          Input(JsonObject({<<"k", JsonNumber(1)>>}))

-----------------------------------------------------------------------------
(* Claims about healMarkdown, checked under SpecHeal *)

\* A buffer repaired by the render in force.
Healed == processedContent # <<>> /\ processedContent[1].streaming

\* The closer of each marker kind, and the kind's count in a buffer.
Closer(kind) ==
    CASE kind = "fence" -> <<"\n">> \o FENCE
      [] kind = "inline" -> <<BACKTICK>>
      [] kind = "bold" -> BOLD
      [] kind = "italic" -> <<"*">>

MarkerCount(buffer, kind) ==
    CASE kind = "fence" -> CountMatches(buffer, FENCE, 1)
      [] kind = "inline" -> CountLone(buffer, BACKTICK)
      [] kind = "bold" -> CountMatches(buffer, BOLD, 1)
      [] kind = "italic" -> CountLone(buffer, "*")

MarkerKinds == {"fence", "inline", "bold", "italic"}

\* The orders the four kinds can be taken in.
KindOrders == {o \in [1..4 -> MarkerKinds] : {o[i] : i \in 1..4} = MarkerKinds}

RECURSIVE ClosersFor(_, _, _)
\* The closers, in order o from position i on, of the kinds whose count in the
\* buffer is odd.
ClosersFor(buffer, o, i) ==
    IF i > 4 THEN <<>>
    ELSE (IF MarkerCount(buffer, o[i]) % 2 = 1 THEN Closer(o[i]) ELSE <<>>)
         \o ClosersFor(buffer, o, i + 1)

\* C18: the repaired buffer is the input followed by the closers, in some
\* order, of exactly the marker kinds whose count in the input is odd.
C18_ClosersFromInputCounts ==
    Healed =>
        \E o \in KindOrders :
            processedContent[1].result =
                processedContent[1].of \o ClosersFor(processedContent[1].of, o, 1)

\* C19: a buffer in which each of the four kinds occurs an even number of
\* times is returned unchanged, and every input is a prefix of its repair.
C19_BalancedUnchanged ==
    Healed =>
        LET in == processedContent[1].of
            out == processedContent[1].result
        IN  /\ (\A k \in MarkerKinds : MarkerCount(in, k) % 2 = 0) => out = in
            /\ Len(out) >= Len(in)
            /\ SubSeq(out, 1, Len(in)) = in

\* C19 witness: a buffer with a closed bold span is rendered as it is.
C19_Witness ==
    /\ Healed
    /\ processedContent[1].of = <<"*", "*", "a", "*", "*">>
    /\ processedContent[1].result = processedContent[1].of

\* C20: in the repaired buffer each of the four marker kinds occurs an even
\* number of times.
C20_OutputBalanced ==
    Healed =>
        \A k \in MarkerKinds : MarkerCount(processedContent[1].result, k) % 2 = 0

\* C29: healMarkdown is idempotent: repairing a repaired buffer appends
\* nothing more.
C29_HealIdempotent ==
    (Healed /\ processedContent[1].pass = 2) =>
        processedContent[1].result = processedContent[1].of

=============================================================================
